---- MODULE Spec2Model ----
(***************************************************************************)
(* Guide-Based Email Slicer (src/src/code.ts): the plugin sandbox as a     *)
(* state machine.  The scene holds one frame with its guides, the reserved *)
(* slice group and temporary slices; commands arrive on figma.ui.onmessage *)
(* and export-html suspends at every exportAsync call.                     *)
(*                                                                         *)
(* Numbers that the code rounds (guide offsets, the frame height) are kept *)
(* in half pixels, so that Math.round has something to do.  Strings that   *)
(* the code transforms are sequences of one-character strings.             *)
(***************************************************************************)
EXTENDS Integers, Sequences, FiniteSets, TLC

VARIABLES
    selection,      \* figma.currentPage.selection: a sequence of [type, depth]
    frameHeight,    \* frame.height, in half pixels
    guides,         \* frame.guides: a sequence of [axis, offset], offset in half pixels
    sliceGroup,     \* the frame's __EMAIL_SLICES__ group: <<its children>>, or Null
    orphans,        \* temporary slices left on the page by runs that ended
    runs,           \* the handleExportHTML invocations, by run id
    event,          \* the last step taken and the messages it posted to the UI
    result          \* <<the value>> a function specification computed, or <<>>

vars == <<selection, frameHeight, guides, sliceGroup, orphans,
          runs, event, result>>

\* null, for a link (a link found by parseLinkFromName is never empty) and for a
\* node reference (a reference is a sequence of at most one node)
Null == <<>>

\* ------------------------------------------------------------ bounds

MaxGuides == 3      \* guides of a frame, in the region specification
MaxOffset == 7      \* the largest guide offset there, in half pixels
MaxHeight == 8      \* the largest frame height there, in half pixels
MaxNameLen == 3     \* characters of a slice name, in the naming specification
MaxNames == 3       \* slices of a group there
SceneHeight == 8    \* the frame height of the command specifications, in half pixels
MaxRuns == 2        \* export-html invocations in flight
MaxOrphans == 1     \* temporary slices left behind
MaxRenamed == 1     \* the slices of the group a user renames

\* ------------------------------------------------------------ numbers

\* Math.round of x/2: the nearest integer, halves rounded up.
Round(x2) == (x2 + 1) \div 2

RECURSIVE DigitsOf(_)
\* String(n) for n >= 0, as a sequence of characters.
DigitsOf(n) ==
    LET d == <<"0", "1", "2", "3", "4", "5", "6", "7", "8", "9">>[(n % 10) + 1]
    IN  IF n < 10 THEN <<d>> ELSE DigitsOf(n \div 10) \o <<d>>

RECURSIVE PadStart(_, _, _)
\* s.padStart(n, c)
PadStart(s, n, c) == IF Len(s) >= n THEN s ELSE PadStart(<<c>> \o s, n, c)

\* ------------------------------------------------------------ sequences

RECURSIVE Gather(_, _, _)
\* F(lo) \o ... \o F(hi), built by halves
Gather(F(_), lo, hi) ==
    IF lo > hi THEN <<>>
    ELSE IF lo = hi THEN F(lo)
    ELSE LET mid == (lo + hi) \div 2
         IN  Gather(F, lo, mid) \o Gather(F, mid + 1, hi)

\* <<F(lo), ..., F(hi)>>
Tabulate(F(_), lo, hi) == Gather(LAMBDA k : <<F(k)>>, lo, hi)

\* ------------------------------------------------------------ regions

AxisY(gs) == SelectSeq(gs, LAMBDA g : g.axis = "Y")

\* .map(g => Math.round(g.offset))
MapRound(gs) == Tabulate(LAMBDA k : Round(gs[k].offset), 1, Len(gs))

InRangeNoLower(y, frameH) == y < frameH

\* the filter's predicate: y > 0 && y < Math.round(frame.height)
InRange(y, frameH) == y > 0 /\ y < frameH

FilterInRange(ys, frameH) == SelectSeq(ys, LAMBDA y : InRange(y, frameH))

DedupNone(ys) == ys

\* [...new Set(positions)]: first occurrences, in insertion order
Dedup(ys) ==
    Gather(LAMBDA k : IF \E j \in 1..(k - 1) : ys[j] = ys[k] THEN <<>> ELSE <<ys[k]>>,
           1, Len(ys))

\* the place of ys[k] in the sorted array: after the elements that are smaller, or
\* equal and earlier
SortRank(ys, k) ==
    1 + Cardinality({j \in 1..Len(ys) : ys[j] < ys[k] \/ (ys[j] = ys[k] /\ j < k)})

\* ys with each element at its place
Place(ys, ranks) ==
    Tabulate(LAMBDA n : ys[CHOOSE k \in 1..Len(ys) : ranks[k] = n], 1, Len(ys))

\* positions.sort((a, b) => a - b)
SortAsc(ys) == Place(ys, Tabulate(LAMBDA k : SortRank(ys, k), 1, Len(ys)))

\* `slice-${String(n).padStart(3, "0")}`
SliceName(n) == <<"s", "l", "i", "c", "e", "-">> \o PadStart(DigitsOf(n), 3, "0")

\* the for loop over the boundaries: one region per 0-based i that the guard
\* y1 <= y0 does not skip, in the order of i
RegionLoop(boundaries) ==
    Gather(LAMBDA n :
               LET y0 == boundaries[n]
                   y1 == boundaries[n + 1]
               IN  IF y1 <= y0 THEN <<>>
                   ELSE <<[index |-> n - 1, y0 |-> y0, y1 |-> y1,
                           name |-> SliceName(n)]>>,
           1, Len(boundaries) - 1)

computeSliceRegions(gs, h2) ==
    LET horizontalGuides == AxisY(gs)
        frameH == Round(h2)
        positions ==
            SortAsc(Dedup(FilterInRange(MapRound(horizontalGuides), frameH)))
        boundaries == <<0>> \o positions \o <<frameH>>
    IN  IF Len(horizontalGuides) = 0 THEN <<>>
        ELSE RegionLoop(boundaries)

\* ------------------------------------------------------------ strings

LowerLetters ==
    <<"a", "b", "c", "d", "e", "f", "g", "h", "i", "j", "k", "l", "m",
      "n", "o", "p", "q", "r", "s", "t", "u", "v", "w", "x", "y", "z">>

UpperLetters ==
    <<"A", "B", "C", "D", "E", "F", "G", "H", "I", "J", "K", "L", "M",
      "N", "O", "P", "Q", "R", "S", "T", "U", "V", "W", "X", "Y", "Z">>

Digits == {"0", "1", "2", "3", "4", "5", "6", "7", "8", "9"}

\* one character of toLowerCase()
ToLowerChar(c) ==
    IF \E k \in 1..26 : UpperLetters[k] = c
    THEN LowerLetters[CHOOSE k \in 1..26 : UpperLetters[k] = c]
    ELSE c

\* the character class [a-z0-9]
IsAlnum(c) == (\E k \in 1..26 : LowerLetters[k] = c) \/ c \in Digits

\* the character class \s, over the characters the inputs use
IsSpace(c) == c = " "

RECURSIVE TrimStart(_)
TrimStart(s) ==
    IF s /= <<>> /\ IsSpace(Head(s)) THEN TrimStart(Tail(s)) ELSE s

RECURSIVE TrimEnd(_)
TrimEnd(s) ==
    IF s /= <<>> /\ IsSpace(s[Len(s)]) THEN TrimEnd(SubSeq(s, 1, Len(s) - 1)) ELSE s

\* String.prototype.trim
Trim(s) == TrimEnd(TrimStart(s))

\* String.prototype.startsWith
StartsWith(s, prefix) ==
    Len(s) >= Len(prefix) /\ SubSeq(s, 1, Len(prefix)) = prefix

\* the first index at which pat occurs in s, or 0
IndexOf(s, pat) ==
    LET hits == {k \in 1..(Len(s) - Len(pat) + 1) :
                    SubSeq(s, k, k + Len(pat) - 1) = pat}
    IN  IF hits = {} THEN 0 ELSE CHOOSE k \in hits : \A j \in hits : k <= j

\* s.replace(pat, rep) with a string pattern: the first occurrence only
ReplaceFirst(s, pat, rep) ==
    LET k == IndexOf(s, pat)
    IN  IF k = 0 THEN s
        ELSE SubSeq(s, 1, k - 1) \o rep \o SubSeq(s, k + Len(pat), Len(s))

HttpPrefix == <<"h", "t", "t", "p", ":", "/", "/">>
HttpsPrefix == <<"h", "t", "t", "p", "s", ":", "/", "/">>
PngExt == <<".", "p", "n", "g">>

\* name.match(/\(([^)]+)\)\s*$/): the positions <<p, q>> of the parentheses of the
\* leftmost match, or <<0, 0>>
LinkMatch(name) ==
    LET t == Len(TrimEnd(name))
        opens == {p \in 1..(t - 2) :
                     /\ name[p] = "("
                     /\ \A k \in (p + 1)..(t - 1) : name[k] /= ")"}
    IN  IF t >= 3 /\ name[t] = ")" /\ opens /= {}
        THEN <<CHOOSE p \in opens : \A o \in opens : p <= o, t>>
        ELSE <<0, 0>>

parseLinkFromName(name) ==
    LET m == LinkMatch(name)
        url == Trim(SubSeq(name, m[1] + 1, m[2] - 1))
    IN  IF m[1] /= 0 /\ (StartsWith(url, HttpPrefix) \/ StartsWith(url, HttpsPrefix))
        THEN [cleanName |-> Trim(SubSeq(name, 1, m[1] - 1)), linkUrl |-> url]
        ELSE [cleanName |-> name, linkUrl |-> Null]

RECURSIVE ToLower(_)
ToLower(s) ==
    IF s = <<>> THEN <<>> ELSE <<ToLowerChar(Head(s))>> \o ToLower(Tail(s))

RECURSIVE HyphenateRuns(_)
\* .replace(/[^a-z0-9]+/g, "-"): every maximal run of other characters becomes "-"
HyphenateRuns(s) ==
    IF s = <<>> THEN <<>>
    ELSE IF IsAlnum(Head(s)) THEN <<Head(s)>> \o HyphenateRuns(Tail(s))
    ELSE IF Len(s) >= 2 /\ ~IsAlnum(s[2]) THEN HyphenateRuns(Tail(s))
    ELSE <<"-">> \o HyphenateRuns(Tail(s))

\* .replace(/^-|-$/g, ""): one leading and one trailing hyphen
StripHyphens(s) ==
    LET a == IF s /= <<>> /\ Head(s) = "-" THEN Tail(s) ELSE s
    IN  IF a /= <<>> /\ a[Len(a)] = "-" THEN SubSeq(a, 1, Len(a) - 1) ELSE a

sanitizeFileName(name) ==
    LET r == StripHyphens(HyphenateRuns(ToLower(name)))
    IN  IF r = <<>> THEN <<"s", "l", "i", "c", "e">> ELSE r

\* the first child of the group whose stored index is String(region.index), or 0
MatchingChild(children, region) ==
    LET hits == {k \in 1..Len(children) :
                    children[k].pluginData.index = DigitsOf(region.index)}
    IN  IF hits = {} THEN 0 ELSE CHOOSE k \in hits : \A j \in hits : k <= j

\* regions.map((region, i) => ...)
resolveSliceNames(group, regions) ==
    Tabulate(LAMBDA n :
                 LET region == regions[n]
                     k == IF group = Null THEN 0 ELSE MatchingChild(group[1], region)
                     rawName == IF k = 0 THEN region.name ELSE group[1][k].name
                     parsed == parseLinkFromName(rawName)
                 IN  [name |-> parsed.cleanName,
                      fileName |-> sanitizeFileName(parsed.cleanName) \o PngExt,
                      linkUrl |-> parsed.linkUrl],
             1, Len(regions))

\* seenNames.get(f) || 0
SeenCount(seenNames, f) == IF f \in DOMAIN seenNames THEN seenNames[f] ELSE 0

\* seenNames before entry k of the deduplication pass: every file name of an
\* earlier entry, as it was resolved, with the number of those entries
SeenBefore(namedSlices, k) ==
    [f \in {namedSlices[j].fileName : j \in 1..(k - 1)} |->
        Cardinality({j \in 1..(k - 1) : namedSlices[j].fileName = f})]

\* the body of the deduplication pass for entry k
DedupEntry(namedSlices, k) ==
    LET s == namedSlices[k]
        count == SeenCount(SeenBefore(namedSlices, k), s.fileName)
    IN  IF count > 0
        THEN [s EXCEPT !.fileName =
                 ReplaceFirst(s.fileName, PngExt, <<"-">> \o DigitsOf(count) \o PngExt)]
        ELSE s

DeduplicateFileNames(namedSlices) ==
    Tabulate(LAMBDA k : DedupEntry(namedSlices, k), 1, Len(namedSlices))

\* ------------------------------------------------------------ scene

\* the cap on the number of regions
MaxSlices == 100

RunIds == 1..MaxRuns

Commands == {"generate-slices", "export-html", "clear-slices", "clear-guides"}

Guide(axis, offset) == [axis |-> axis, offset |-> offset]

\* getSelectedFrame() /= null under selection sel: the model's scene has one frame
SelectsFrame(sel) == Len(sel) = 1 /\ sel[1].type = "FRAME"

getSelectedFrame == SelectsFrame(selection)

\* the message updateSelectionState posts under selection sel
SelectionChanged(sel) ==
    IF SelectsFrame(sel)
    THEN [type |-> "selection-changed", valid |-> TRUE,
          frameHeight |-> Round(frameHeight), guideCount |-> Len(AxisY(guides))]
    ELSE [type |-> "selection-changed", valid |-> FALSE]

\* the slice node handleGenerateSlices creates for a region; y is relative to the frame
NewSlice(region) ==
    [type |-> "SLICE", name |-> region.name, y |-> region.y0,
     height |-> region.y1 - region.y0,
     pluginData |-> [kind |-> "email-slice", index |-> DigitsOf(region.index),
                     y0 |-> DigitsOf(region.y0), y1 |-> DigitsOf(region.y1)]]

\* the slices of the loop over the regions, in order
NewSlices(regions) == Tabulate(LAMBDA k : NewSlice(regions[k]), 1, Len(regions))

\* handleGenerateSlices on the selected frame: the slice group it leaves, whether it
\* removed the group it found, and the messages it posts
GenerateOutcome ==
    LET regions == computeSliceRegions(guides, frameHeight)
    IN  IF Len(regions) = 0
        THEN [group |-> sliceGroup, removed |-> FALSE,
              posted |-> <<[type |-> "error", message |-> "no-guides"]>>]
        ELSE IF Len(regions) > MaxSlices
        THEN [group |-> sliceGroup, removed |-> FALSE,
              posted |-> <<[type |-> "error", message |-> "too-many",
                            count |-> Len(regions)]>>]
        ELSE [group |-> <<NewSlices(regions)>>, removed |-> sliceGroup /= Null,
              posted |-> <<[type |-> "slices-generated", count |-> Len(regions)]>>]

\* group.remove(), as the runs see it: a run that holds the group now holds a
\* removed node
MarkRemoved(rs) ==
    [r \in RunIds |->
        IF rs[r].pc = "await" /\ rs[r].sliceGroup /= Null
        THEN [rs[r] EXCEPT !.groupRemoved = TRUE] ELSE rs[r]]

IdleRun ==
    [pc |-> "idle", regions |-> <<>>, namedSlices |-> <<>>, sliceGroup |-> Null,
     groupRemoved |-> FALSE, i |-> 0, sliceNode |-> Null, tempSlice |-> FALSE,
     exportedSlices |-> <<>>, trace |-> <<>>, temps |-> 0, images |-> <<>>]

\* the run's record of an exportAsync call for entry k and of its completion
Requested(k, total) == [type |-> "exportAsync", current |-> k, total |-> total]
Completed(k, total) == [type |-> "pngBytes", current |-> k, total |-> total]
Handoff(total) == [type |-> "package-zip", current |-> total, total |-> total]

ProgressMsgOffByOne(i, total) ==
    [type |-> "export-progress", current |-> i, total |-> total]

\* the export-progress message of iteration i (0-based)
ProgressMsg(i, total) ==
    [type |-> "export-progress", current |-> i + 1, total |-> total]

\* the first SLICE child of the group whose stored index is String(region.index), or 0
MatchingSlice(children, region) ==
    LET hits == {k \in 1..Len(children) :
                    /\ children[k].type = "SLICE"
                    /\ children[k].pluginData.index = DigitsOf(region.index)}
    IN  IF hits = {} THEN 0 ELSE CHOOSE k \in hits : \A j \in hits : k <= j

\* One iteration of the export loop up to its exportAsync call: the progress
\* message, the slice node found in the group or created, and the request.
EnterIteration(run, i) ==
    LET region == run.regions[i + 1]
        msg == ProgressMsg(i, Len(run.regions))
        k == IF run.sliceGroup = Null THEN 0
             ELSE MatchingSlice(run.sliceGroup[1], region)
        temp == k = 0
        node == IF temp
                THEN [type |-> "SLICE", y |-> region.y0,
                      height |-> region.y1 - region.y0]
                ELSE [type |-> "SLICE", y |-> run.sliceGroup[1][k].y,
                      height |-> run.sliceGroup[1][k].height]
    IN  [run EXCEPT !.pc = "await", !.i = i, !.sliceNode = <<node>>,
                    !.tempSlice = temp,
                    !.temps = IF temp THEN @ + 1 ELSE @,
                    !.trace = @ \o <<msg, Requested(i + 1, Len(run.regions))>>]

\* exportedSlices.map(s => ({fileName, bytes}))
Images(exportedSlices) ==
    Tabulate(LAMBDA k : [fileName |-> exportedSlices[k].fileName,
                         bytes |-> exportedSlices[k].pngBytes],
             1, Len(exportedSlices))

PackageZip(exportedSlices) ==
    [type |-> "package-zip", images |-> Images(exportedSlices)]

\* ------------------------------------------------------------ inputs

\* the nodes a user selects: the frame, as a child of the page (depth 1) or of
\* another frame (depth 2), and a rectangle
Node(type, depth) == [type |-> type, depth |-> depth]
TopFrame == Node("FRAME", 1)
NestedFrame == Node("FRAME", 2)
Rectangle == Node("RECTANGLE", 1)

SelectionInputs ==
    {<<>>, <<TopFrame>>, <<NestedFrame>>, <<Rectangle>>, <<TopFrame, Rectangle>>}

\* the guide sets a user gives the frame of the command specification
GuideInputs ==
    {<<>>,
     <<Guide("X", 4)>>,
     <<Guide("Y", 4)>>,
     <<Guide("Y", 4), Guide("Y", 5)>>,
     <<Guide("Y", 2 * SceneHeight)>>}

RenameInputs == {<<"a">>}

\* ------------------------------------------------------------ commands

\* a step that ends no run, and a step that ends one: ended holds the invocation as
\* it was left
Post(type, run, posted) ==
    [type |-> type, run |-> run, posted |-> posted, ended |-> <<>>]
Ended(type, run, posted, left) ==
    [type |-> type, run |-> run, posted |-> posted, ended |-> <<left>>]

\* the run a new handleExportHTML invocation gets, among ids
FreeRun(ids) ==
    CHOOSE r \in ids :
        runs[r].pc = "idle" /\ \A q \in ids : runs[q].pc = "idle" => r <= q

\* case "generate-slices"
OnGenerateSlices ==
    /\ IF getSelectedFrame
       THEN LET o == GenerateOutcome
            IN  /\ sliceGroup' = o.group
                /\ runs' = IF o.removed THEN MarkRemoved(runs) ELSE runs
                /\ event' = Post("generate-slices", 0, o.posted)
       ELSE /\ UNCHANGED <<sliceGroup, runs>>
            /\ event' = Post("generate-slices", 0, <<>>)
    /\ UNCHANGED <<selection, frameHeight, guides, orphans, result>>

\* case "clear-slices"
OnClearSlices ==
    /\ IF getSelectedFrame
       THEN /\ sliceGroup' = Null
            /\ runs' = IF sliceGroup /= Null THEN MarkRemoved(runs) ELSE runs
            /\ event' = Post("clear-slices", 0, <<[type |-> "slices-cleared"]>>)
       ELSE /\ UNCHANGED <<sliceGroup, runs>>
            /\ event' = Post("clear-slices", 0, <<>>)
    /\ UNCHANGED <<selection, frameHeight, guides, orphans, result>>

\* case "clear-guides"
OnClearGuides ==
    /\ IF getSelectedFrame
       THEN /\ guides' = SelectSeq(guides, LAMBDA g : g.axis /= "Y")
            /\ event' = Post("clear-guides", 0,
                             <<[type |-> "guides-cleared"],
                               [type |-> "selection-changed", valid |-> TRUE,
                                frameHeight |-> Round(frameHeight),
                                guideCount |-> 0]>>)
       ELSE /\ UNCHANGED guides
            /\ event' = Post("clear-guides", 0, <<>>)
    /\ UNCHANGED <<selection, frameHeight, sliceGroup, orphans, runs,
                   result>>

\* case "export-html": handleExportHTML up to its first exportAsync call
OnExportHtml(ids) ==
    /\ \E r \in ids : runs[r].pc = "idle"
    /\ LET r == FreeRun(ids)
           regions == computeSliceRegions(guides, frameHeight)
       IN  IF ~getSelectedFrame
           THEN /\ UNCHANGED <<sliceGroup, runs>>
                /\ event' = Post("export-html", r, <<>>)
           ELSE IF Len(regions) = 0
           THEN /\ UNCHANGED <<sliceGroup, runs>>
                /\ event' = Post("export-html", r,
                                 <<[type |-> "error", message |-> "no-guides-export"]>>)
           ELSE LET o == GenerateOutcome
                    generated == sliceGroup = Null
                    group == IF generated THEN o.group ELSE sliceGroup
                    namedSlices ==
                        DeduplicateFileNames(resolveSliceNames(group, regions))
                    run == EnterIteration(
                               [IdleRun EXCEPT !.regions = regions,
                                               !.namedSlices = namedSlices,
                                               !.sliceGroup = group], 0)
                IN  /\ sliceGroup' = group
                    /\ runs' = [runs EXCEPT ![r] = run]
                    /\ event' = Post("export-html", r,
                                     (IF generated THEN o.posted ELSE <<>>)
                                     \o <<ProgressMsg(0, Len(regions))>>)
    /\ UNCHANGED <<selection, frameHeight, guides, orphans, result>>

\* the run after its exportAsync call resolved: the temporary slice removed, the
\* entry pushed
AfterExport(run) ==
    LET region == run.regions[run.i + 1]
        meta == run.namedSlices[run.i + 1]
    IN  [run EXCEPT
            !.temps = IF run.tempSlice THEN @ - 1 ELSE @,
            !.exportedSlices =
                Append(@, [fileName |-> meta.fileName,
                           pngBytes |-> [y |-> run.sliceNode[1].y,
                                         height |-> run.sliceNode[1].height],
                           height |-> region.y1 - region.y0,
                           linkUrl |-> meta.linkUrl]),
            !.trace = Append(@, Completed(run.i + 1, Len(run.regions)))]

\* exportAsync resolves: the rest of the iteration, then the next iteration up to
\* its exportAsync call, or the handoff
ExportResolve(r) ==
    /\ runs[r].pc = "await"
    /\ LET run == AfterExport(runs[r])
           total == Len(run.regions)
       IN  IF run.i + 1 < total
           THEN /\ runs' = [runs EXCEPT ![r] = EnterIteration(run, run.i + 1)]
                /\ event' = Post("export-resume", r, <<ProgressMsg(run.i + 1, total)>>)
           ELSE /\ runs' = [runs EXCEPT ![r] = IdleRun]
                /\ event' = Ended("export-resume", r,
                                  <<PackageZip(run.exportedSlices)>>,
                                  [run EXCEPT !.pc = "done",
                                              !.images = Images(run.exportedSlices),
                                              !.trace = Append(@, Handoff(total))])
    /\ UNCHANGED <<selection, frameHeight, guides, sliceGroup, orphans,
                   result>>

\* exportAsync resolves, and the next iteration reads the children of a group that
\* was removed meanwhile: the host may throw there (ExportResolve is the other outcome)
ExportResolveThrow(r) ==
    /\ runs[r].pc = "await"
    /\ runs[r].groupRemoved
    /\ runs[r].i + 1 < Len(runs[r].regions)
    /\ LET run == AfterExport(runs[r])
       IN  /\ runs' = [runs EXCEPT ![r] = IdleRun]
           /\ event' = Ended("export-throw", r,
                             <<ProgressMsg(run.i + 1, Len(run.regions))>>,
                             [run EXCEPT !.pc = "failed",
                                         !.trace = Append(@, ProgressMsg(run.i + 1,
                                                                Len(run.regions)))])
    /\ UNCHANGED <<selection, frameHeight, guides, sliceGroup, orphans,
                   result>>

\* exportAsync rejects: the exception leaves handleExportHTML at the await
ExportReject(r) ==
    /\ runs[r].pc = "await"
    /\ runs[r].tempSlice => orphans < MaxOrphans
    /\ runs' = [runs EXCEPT ![r] = IdleRun]
    /\ orphans' = IF runs[r].tempSlice THEN orphans + 1 ELSE orphans
    /\ event' = Ended("export-reject", r, <<>>, [runs[r] EXCEPT !.pc = "failed"])
    /\ UNCHANGED <<selection, frameHeight, guides, sliceGroup, result>>

\* ------------------------------------------------------------ the user

\* the user changes the selection: figma.on("selectionchange")
SelectionChange(sel) ==
    /\ sel /= selection
    /\ selection' = sel
    /\ event' = Post("user", 0, <<SelectionChanged(sel)>>)
    /\ UNCHANGED <<frameHeight, guides, sliceGroup, orphans, runs,
                   result>>

\* the user edits the frame's guides
SetGuides(gs) ==
    /\ gs /= guides
    /\ guides' = gs
    /\ event' = Post("user", 0, <<>>)
    /\ UNCHANGED <<selection, frameHeight, sliceGroup, orphans, runs,
                   result>>

\* the user renames a slice of the group
RenameSlice(k, name) ==
    /\ sliceGroup /= Null
    /\ k \in 1..Len(sliceGroup[1])
    /\ sliceGroup[1][k].name /= name
    /\ sliceGroup' = <<[sliceGroup[1] EXCEPT ![k].name = name]>>
    /\ event' = Post("user", 0, <<>>)
    /\ UNCHANGED <<selection, frameHeight, guides, orphans, runs,
                   result>>

\* ------------------------------------------------------------ specifications

Idle ==
    /\ sliceGroup = Null
    /\ orphans = 0
    /\ runs = [r \in RunIds |-> IdleRun]
    /\ result = <<>>

\* The commands with one export-html in flight at a time, under every selection,
\* guide edits and renames.
SoloRuns == {1}

Init ==
    /\ Idle
    /\ selection = <<>>
    /\ frameHeight = SceneHeight
    /\ guides = <<>>
    /\ event = Post("init", 0, <<SelectionChanged(<<>>)>>)

Next ==
    \/ OnGenerateSlices
    \/ OnClearSlices
    \/ OnClearGuides
    \/ OnExportHtml(SoloRuns)
    \/ \E r \in SoloRuns : ExportResolve(r)
    \/ \E r \in SoloRuns : ExportResolveThrow(r)
    \/ \E r \in SoloRuns : ExportReject(r)
    \/ \E sel \in SelectionInputs : SelectionChange(sel)
    \/ \E gs \in GuideInputs : SetGuides(gs)
    \/ \E k \in 1..MaxRenamed, name \in RenameInputs : RenameSlice(k, name)

Spec == Init /\ [][Next]_vars

\* The commands with up to MaxRuns export-html invocations in flight, the frame
\* staying selected and every rasterization resolving.
ConcurrentGuideInputs == {<<Guide("Y", 4)>>, <<Guide("Y", 4), Guide("Y", 5)>>}

InitConcurrent ==
    /\ Idle
    /\ selection = <<TopFrame>>
    /\ frameHeight = SceneHeight
    /\ guides = <<Guide("Y", 4)>>
    /\ event = Post("init", 0, <<SelectionChanged(<<TopFrame>>)>>)

NextConcurrent ==
    \/ OnGenerateSlices
    \/ OnClearSlices
    \/ OnExportHtml(RunIds)
    \/ \E r \in RunIds : ExportResolve(r)
    \/ \E r \in RunIds : ExportResolveThrow(r)
    \/ \E gs \in ConcurrentGuideInputs : SetGuides(gs)

SpecConcurrent == InitConcurrent /\ [][NextConcurrent]_vars

\* The commands on a frame with as many guides as the cap allows, and one more.
DenseGuides(n) == Tabulate(LAMBDA k : Guide("Y", 2 * k), 1, n)

CapGuideInputs == {DenseGuides(MaxSlices - 1), DenseGuides(MaxSlices)}

InitCap ==
    /\ Idle
    /\ selection = <<TopFrame>>
    /\ frameHeight = 2 * (MaxSlices + 2)
    /\ guides \in CapGuideInputs
    /\ event = Post("init", 0, <<SelectionChanged(<<TopFrame>>)>>)

NextCap ==
    \/ OnGenerateSlices
    \/ OnExportHtml(SoloRuns)
    \/ \E r \in SoloRuns : ExportResolve(r)

SpecCap == InitCap /\ [][NextCap]_vars

\* computeSliceRegions on every frame of a few guides, and on the frame of height
\* 900 with guides at 300, 300 and 600.
SeqsUpTo(S, n) == UNION {[1..m -> S] : m \in 0..n}

RegionGuides == {Guide("Y", o) : o \in -2..MaxOffset} \cup {Guide("X", 4)}

InitRegions ==
    /\ Idle
    /\ selection = <<TopFrame>>
    /\ event = Post("init", 0, <<>>)
    /\ \/ /\ guides \in SeqsUpTo(RegionGuides, MaxGuides)
          /\ frameHeight \in 0..MaxHeight
       \/ /\ guides = <<Guide("Y", 600), Guide("Y", 600), Guide("Y", 1200)>>
          /\ frameHeight = 1800

ComputeRegions ==
    /\ result = <<>>
    /\ result' = <<computeSliceRegions(guides, frameHeight)>>
    /\ UNCHANGED <<selection, frameHeight, guides, sliceGroup, orphans, runs, event>>

SpecRegions == InitRegions /\ [][ComputeRegions]_vars

\* The naming of an export batch on every group of a few slices with short names.
NameChars == {"a", "-", "1"}

NameInputs ==
    SeqsUpTo(NameChars, MaxNameLen)
    \cup {<<"A">>,
          <<"a", " ", "(", "x", ")">>,
          <<"a", " ", "(", "h", "t", "t", "p", ":", "/", "/", "x", ")">>}

\* n regions of one pixel each
UnitGuides(n) == Tabulate(LAMBDA k : Guide("Y", 2 * k), 1, n)

InitNames ==
    /\ orphans = 0
    /\ runs = [r \in RunIds |-> IdleRun]
    /\ result = <<>>
    /\ selection = <<TopFrame>>
    /\ event = Post("init", 0, <<>>)
    /\ \E n \in 1..MaxNames :
          /\ frameHeight = 2 * n
          /\ guides = UnitGuides(n)
          /\ \E names \in [1..n -> NameInputs] :
                sliceGroup =
                    <<[k \in 1..n |->
                          [NewSlice(computeSliceRegions(UnitGuides(n), 2 * n)[k])
                              EXCEPT !.name = names[k]]]>>

\* the file names handleExportHTML gives the batch
ResolveNames ==
    /\ result = <<>>
    /\ result' = <<DeduplicateFileNames(
                       resolveSliceNames(sliceGroup,
                                         computeSliceRegions(guides, frameHeight)))>>
    /\ UNCHANGED <<selection, frameHeight, guides, sliceGroup, orphans, runs, event>>

SpecNames == InitNames /\ [][ResolveNames]_vars

\* ------------------------------------------------------------ claims

\* the rounded offsets of the horizontal guides strictly inside the frame
UsableOffsets ==
    {Round(guides[k].offset) : k \in {j \in 1..Len(guides) :
        /\ guides[j].axis = "Y"
        /\ 0 < Round(guides[j].offset)
        /\ Round(guides[j].offset) < Round(frameHeight)}}

HasHorizontalGuide == \E k \in 1..Len(guides) : guides[k].axis = "Y"

\* regions tile [0, frameH]: each in bounds with 0 <= y0 < y1, adjacent ones meeting,
\* every pixel row in exactly one of them, first y0 = 0 and last y1 = frameH, sorted
\* by y0, index the 0-based position
Tiles(regions, frameH) ==
    /\ \A k \in 1..Len(regions) :
          /\ 0 <= regions[k].y0
          /\ regions[k].y0 < regions[k].y1
          /\ regions[k].y1 <= frameH
          /\ regions[k].index = k - 1
    /\ \A k \in 1..(Len(regions) - 1) :
          /\ regions[k].y1 = regions[k + 1].y0
          /\ regions[k].y0 < regions[k + 1].y0
    /\ \A y \in 0..(frameH - 1) :
          Cardinality({k \in 1..Len(regions) :
                          regions[k].y0 <= y /\ y < regions[k].y1}) = 1
    /\ regions /= <<>> => regions[1].y0 = 0 /\ regions[Len(regions)].y1 = frameH

\* C1 (as claimed): a generate-slices or export-html command on a frame whose guides
\* give more than 100 regions posts the capacity error and creates nothing: the
\* slice group stays as it was, no run reaches a rasterization (so no temporary
\* slice and no package-zip either).
C1_CapRefusesBeforeArtifacts ==
    [][(/\ event'.type \in {"generate-slices", "export-html"}
        /\ getSelectedFrame
        /\ Len(computeSliceRegions(guides, frameHeight)) > MaxSlices)
       => (/\ \E k \in 1..Len(event'.posted) :
                 /\ event'.posted[k].type = "error"
                 /\ event'.posted[k].message = "too-many"
           /\ sliceGroup' = sliceGroup
           /\ runs' = runs
           /\ orphans' = orphans)]_vars

\* C2 (as claimed): for every guide list and frame height the regions tile
\* [0, round(frameHeight)].
C2_RegionsTileAlways ==
    result /= <<>> => Tiles(result[1], Round(frameHeight))

\* C2 (amended): for every guide list with at least one horizontal guide and every
\* frame height, the regions are non-overlapping, contiguous, cover
\* [0, round(frameHeight)] exactly, satisfy 0 <= y0 < y1, and are sorted by y0 with
\* index equal to the 0-based position.
C2_RegionsTile ==
    (result /= <<>> /\ HasHorizontalGuide) => Tiles(result[1], Round(frameHeight))

C2_Witness ==
    /\ result /= <<>>
    /\ Len(result[1]) = 3
    /\ Len(guides) = 3
    /\ Cardinality(UsableOffsets) = 2

\* C5: every region boundary is 0, round(frameHeight) or the rounded offset of a
\* horizontal guide strictly inside the frame; each such offset is a boundary once
\* (the regions number one more than the distinct offsets, none of zero height);
\* height 900 with guides at 300, 300, 600 gives (0,300), (300,600), (600,900).
C5_BoundariesFromGuides ==
    result /= <<>> =>
        LET regions == result[1]
            frameH == Round(frameHeight)
            bounds == {regions[k].y0 : k \in 1..Len(regions)}
                      \cup {regions[k].y1 : k \in 1..Len(regions)}
        IN  /\ bounds \subseteq {0, frameH} \cup UsableOffsets
            /\ \A k \in 1..Len(regions) : regions[k].y0 < regions[k].y1
            /\ regions /= <<>> =>
                  /\ UsableOffsets \subseteq bounds
                  /\ Len(regions) = Cardinality(UsableOffsets) + 1
            /\ (frameHeight = 1800 /\ Len(guides) = 3) =>
                  /\ Len(regions) = 3
                  /\ <<regions[1].y0, regions[1].y1>> = <<0, 300>>
                  /\ <<regions[2].y0, regions[2].y1>> = <<300, 600>>
                  /\ <<regions[3].y0, regions[3].y1>> = <<600, 900>>

C5_Witness ==
    /\ result /= <<>>
    /\ Len(result[1]) = 2
    /\ \E j, k \in 1..Len(guides) :
          /\ j < k
          /\ guides[j].axis = "Y" /\ guides[k].axis = "Y"
          /\ guides[j].offset /= guides[k].offset
          /\ Round(guides[j].offset) = Round(guides[k].offset)
          /\ Round(guides[j].offset) \in UsableOffsets
    /\ \E k \in 1..Len(guides) :
          guides[k].axis = "Y" /\ Round(guides[k].offset) >= Round(frameHeight)

\* C3 (as claimed): generate-slices or export-html on a frame without a usable guide
\* (no horizontal guide, or none strictly inside the frame) posts an error and
\* changes nothing: the slice group stays, no run starts, no package-zip.
C3_NoUsableGuideNoMutation ==
    [][(/\ event'.type \in {"generate-slices", "export-html"}
        /\ getSelectedFrame
        /\ UsableOffsets = {})
       => (/\ \E k \in 1..Len(event'.posted) : event'.posted[k].type = "error"
           /\ sliceGroup' = sliceGroup
           /\ runs' = runs
           /\ orphans' = orphans)]_vars

\* C4 (as claimed): no two entries of an export batch have the same file name.
C4_UniqueFileNames ==
    result /= <<>> =>
        \A j, k \in 1..Len(result[1]) :
            j < k => result[1][j].fileName /= result[1][k].fileName

\* C6 (as claimed): when an export run ends, by handoff or by a failed exportAsync,
\* no temporary slice it created remains.
C6_NoTemporarySliceLeft ==
    event.ended /= <<>> => event.ended[1].temps = 0

\* C7 (as claimed): while a run is suspended at a rasterization, it is the only one,
\* the last command handled is its own export-html, and the group it iterates over
\* has not been removed.
C7_ExclusiveRun ==
    /\ Cardinality({r \in RunIds : runs[r].pc = "await"}) <= 1
    /\ \A r \in RunIds :
          runs[r].pc = "await" =>
              /\ ~runs[r].groupRemoved
              /\ event.type \in Commands => event.run = r

\* C8 (as claimed): a command under a selection that is not exactly one top-level
\* frame changes nothing and posts nothing.
C8_InvalidSelectionNoOp ==
    [][(/\ event'.type \in Commands
        /\ ~(Len(selection) = 1 /\ selection[1] = TopFrame))
       => (/\ guides' = guides
           /\ sliceGroup' = sliceGroup
           /\ runs' = runs
           /\ orphans' = orphans
           /\ event'.posted = <<>>)]_vars

\* what a run over total regions has sent and asked for when entry k is requested
ExpectedTrace(k, total) ==
    Gather(LAMBDA j : <<[type |-> "export-progress", current |-> j, total |-> total],
                        [type |-> "exportAsync", current |-> j, total |-> total]>>
                      \o (IF j < k
                          THEN <<[type |-> "pngBytes", current |-> j, total |-> total]>>
                          ELSE <<>>),
           1, k)

\* C9: a run over N regions sends export-progress (i, N) right before the
\* rasterization request of entry i and after the result of entry i-1, for
\* i = 1..N in order, and at the handoff it has sent exactly these N, then one
\* package-zip whose N images are the entries in region order.
C9_ProgressOrder ==
    /\ \A r \in RunIds :
          runs[r].pc = "await" =>
              /\ runs[r].trace = ExpectedTrace(runs[r].i + 1, Len(runs[r].regions))
              /\ event.run = r /\ event.type \in {"export-html", "export-resume"} =>
                    event.posted[Len(event.posted)] =
                        [type |-> "export-progress", current |-> runs[r].i + 1,
                         total |-> Len(runs[r].regions)]
    /\ (event.ended /= <<>> /\ event.ended[1].pc = "done") =>
          LET run == event.ended[1]
              total == Len(run.regions)
          IN  /\ run.trace =
                    ExpectedTrace(total, total)
                    \o <<[type |-> "pngBytes", current |-> total, total |-> total],
                         [type |-> "package-zip", current |-> total, total |-> total]>>
              /\ Len(event.posted) = 1
              /\ event.posted[1].type = "package-zip"
              /\ Len(event.posted[1].images) = total
              /\ \A k \in 1..total :
                    /\ event.posted[1].images[k].fileName = run.namedSlices[k].fileName
                    /\ run.exportedSlices[k].height
                           = run.regions[k].y1 - run.regions[k].y0
                    /\ k < total => run.regions[k].y0 < run.regions[k + 1].y0

C9_Witness ==
    /\ event.ended /= <<>>
    /\ event.ended[1].pc = "done"
    /\ Len(event.ended[1].regions) = 3
    /\ \E r \in RunIds : runs[r].pc = "await"

\* C10 (as claimed): every entry is rasterized from a node whose vertical extent is
\* the entry's region.
C10_RasterizedAreaIsRegion ==
    \A r \in RunIds :
        runs[r].pc = "await" =>
            LET region == runs[r].regions[runs[r].i + 1]
            IN  /\ runs[r].sliceNode[1].y = region.y0
                /\ runs[r].sliceNode[1].height = region.y1 - region.y0

====
